---- MODULE Spec2Model ----
(***************************************************************************)
(* The docker-registry pull orchestrator of src/import/import-dkr.c.       *)
(*                                                                         *)
(* One DkrImport session is modelled field by field.  A pointer is NULL    *)
(* when it holds the value 0 (ids, paths, pids), "" (strings) or a job     *)
(* record whose state is "NULL".  A layer id k stands for the string id,   *)
(* and also for the sealed path {image_root}/.dkr-{id}; a temp path is the *)
(* number of the temporary name tempfn_random() produced.                  *)
(*                                                                         *)
(* Every action is one callback of the event loop, run to completion.      *)
(***************************************************************************)
EXTENDS Integers, Sequences, FiniteSets, TLC

\* ---------------------------------------------------------------- bounds
\* Number of layer ids the registry knows; ancestries have up to this length.
MaxLayers == 2

\* ------------------------------------------------------- program constants
LAYERS_MAX == 2048

\* errno values (returned negated)
EIO == 5
ENOMEM == 12
EBUSY == 16
EEXIST == 17
EINVAL == 22
EFBIG == 27
EPROTO == 71
EBADMSG == 74

\* ------------------------------------------------------------- the inputs
LayerIds == 1..MaxLayers
\* A string that fails dkr_id_is_valid().
BadId == -1

\* JSON tokens as json_tokenize() delivers them.
Tok(t, s) == [t |-> t, str |-> s]
T_OPEN == Tok("JSON_ARRAY_OPEN", 0)
T_CLOSE == Tok("JSON_ARRAY_CLOSE", 0)
T_COMMA == Tok("JSON_COMMA", 0)
T_STR(s) == Tok("JSON_STRING", s)
T_OTHER == Tok("JSON_OBJECT_OPEN", 0)
T_ERR == Tok("ERROR", 0)

VARIABLES
    \* struct DkrImport
    images_job, tags_job, ancestry_job, json_job, layer_job,
    name, tag, id,
    response_token, response_registries,
    ancestry, n_ancestry, current_ancestry,
    on_finished,
    local, force_local,
    temp_path, final_path,
    tar_pid,
    \* the world around the session
    store,        \* sealed layers in image_root: id -> subvolume
    temps,        \* temporary subvolumes in image_root: temp name -> subvolume
    children,     \* tar children forked and not yet reaped
    layer_jobs,   \* layer ImportJob objects allocated and not yet unref'd
    machines,     \* local working copies present in image_root
    \* what the session did (history)
    requests,     \* requests begun, in order
    delivered,    \* results handed to on_finished / sd_event_exit, in order
    steps,        \* the steps of the last layer completion, in order
    copies,       \* number of local working copies made
    pull_ret,     \* return value of the last dkr_import_pull()
    ancestry_mismatch, \* log_error("Ancestry doesn't end in main layer.") ran
    reported,     \* the X_IMPORT_PROGRESS values notified, in order
    parser,       \* the run of parse_ancestry() under way in the parser specification
    pull_after,   \* the last dkr_import_pull() came after a result was delivered
    aborted,      \* the assertion that failed, or "none"
    destroyed     \* dkr_import_unref() ran

vars == <<images_job, tags_job, ancestry_job, json_job, layer_job, name, tag, id,
          response_token, response_registries, ancestry, n_ancestry,
          current_ancestry, on_finished, local, force_local, temp_path,
          final_path, tar_pid, store, temps, children, layer_jobs, machines,
          requests,
          ancestry_mismatch,
          reported,
          parser,
          pull_after,
          delivered, steps, copies, pull_ret, aborted, destroyed>>

\* No run of the parser is under way.
NoParse ==
    [toks |-> <<>>, nul |-> FALSE, p |-> 0, state |-> "none", l |-> <<>>,
     done |-> FALSE, r |-> 0]

\* The state as one record, so that a callback is a function from state to state.
World ==
    [images_job |-> images_job, tags_job |-> tags_job, ancestry_job |-> ancestry_job,
     json_job |-> json_job, layer_job |-> layer_job, name |-> name, tag |-> tag,
     id |-> id, response_token |-> response_token,
     response_registries |-> response_registries, ancestry |-> ancestry,
     n_ancestry |-> n_ancestry, current_ancestry |-> current_ancestry,
     on_finished |-> on_finished, local |-> local, force_local |-> force_local,
     temp_path |-> temp_path, final_path |-> final_path, tar_pid |-> tar_pid,
     store |-> store, temps |-> temps, children |-> children,
     layer_jobs |-> layer_jobs, machines |-> machines,
     requests |-> requests, delivered |-> delivered, steps |-> steps,
     copies |-> copies,
     pull_after |-> pull_after,
     parser |-> parser,
     reported |-> reported,
     ancestry_mismatch |-> ancestry_mismatch,
     pull_ret |-> pull_ret, aborted |-> aborted, destroyed |-> destroyed]

Commit(w) ==
    /\ images_job' = w.images_job /\ tags_job' = w.tags_job
    /\ ancestry_job' = w.ancestry_job /\ json_job' = w.json_job
    /\ layer_job' = w.layer_job /\ name' = w.name /\ tag' = w.tag /\ id' = w.id
    /\ response_token' = w.response_token
    /\ response_registries' = w.response_registries
    /\ ancestry' = w.ancestry /\ n_ancestry' = w.n_ancestry
    /\ current_ancestry' = w.current_ancestry /\ on_finished' = w.on_finished
    /\ local' = w.local /\ force_local' = w.force_local
    /\ temp_path' = w.temp_path /\ final_path' = w.final_path
    /\ tar_pid' = w.tar_pid /\ store' = w.store /\ temps' = w.temps
    /\ children' = w.children /\ layer_jobs' = w.layer_jobs
    /\ machines' = w.machines
    /\ requests' = w.requests /\ delivered' = w.delivered /\ steps' = w.steps
    /\ copies' = w.copies
    /\ pull_after' = w.pull_after
    /\ parser' = w.parser
    /\ reported' = w.reported
    /\ ancestry_mismatch' = w.ancestry_mismatch
    /\ pull_ret' = w.pull_ret /\ aborted' = w.aborted /\ destroyed' = w.destroyed

\* ------------------------------------------------------------- ImportJob
\* The fields of ImportJob the orchestrator reads: state, error, disk_fd,
\* progress_percent.
NullJob == [state |-> "NULL", error |-> 0, disk_fd |-> -1, progress_percent |-> 0]
\* import_job_new(): a job allocated and not yet begun.
NewJob == [state |-> "INIT", error |-> 0, disk_fd |-> -1, progress_percent |-> 0]

IsNull(j) == j.state = "NULL"

\* import_job_begin(): the transfer starts; the request is on the wire.
\* requests records it with the cursor, and with what the store held then:
\* whether the layer was absent and whether the layer below it was present.
Begin(w, slot, layer) ==
    LET base == IF layer # 0 /\ w.current_ancestry > 0 /\ w.current_ancestry <= Len(w.ancestry)
                THEN w.ancestry[w.current_ancestry] ELSE 0
    IN  [w EXCEPT ![slot].state = "RUNNING",
                  !.requests = Append(@, [kind |-> slot, layer |-> layer,
                                          index |-> w.current_ancestry,
                                          absent |-> layer \notin DOMAIN w.store,
                                          base_present |-> base = 0 \/ base \in DOMAIN w.store])]

\* The job layer marks a job finished before it calls on_finished: DONE on
\* success, FAILED with the error otherwise.
JobFinish(w, slot, err) ==
    [w EXCEPT ![slot].state = IF err = 0 THEN "IMPORT_JOB_DONE" ELSE "IMPORT_JOB_FAILED",
              ![slot].error = err]

\* A failed assertion aborts the process.
Abort(w, what) == [w EXCEPT !.aborted = what]

\* What a fallible library call does in this run of a callback: `fail` names
\* the call that fails ("none": all succeed), `at` the ancestry index at which
\* laccess() fails, `tar` how the tar child ends when it is awaited.
Oracle(f, k, t) == [fail |-> f, at |-> k, tar |-> t]
NoFail == Oracle("none", 0, "exit0")

\* ------------------------------------------------------- payload parsers
\* A payload is the token sequence json_tokenize() reads from it, and whether
\* it holds a NUL byte.  Past the last token json_tokenize() returns JSON_END.
Payload(toks, nul) == [toks |-> toks, nul |-> nul]

TokenAt(toks, p) == IF p <= Len(toks) THEN toks[p] ELSE Tok("JSON_END", 0)

\* Ids are numbers from 1; BadId stands for every string that is no id.
dkr_id_is_valid(s) == s >= 1

strv_isempty(l) == l = <<>>

strv_is_uniq(l) == \A a, b \in 1..Len(l) : a # b => l[a] # l[b]

strv_reverse(l) == [k \in 1..Len(l) |-> l[Len(l) + 1 - k]]

parse_id(payload) ==
    IF Len(payload.toks) <= 0 THEN [r |-> -EBADMSG, id |-> 0]
    ELSE IF payload.nul THEN [r |-> -EBADMSG, id |-> 0]
    ELSE LET t1 == TokenAt(payload.toks, 1)
             t2 == TokenAt(payload.toks, 2)
         IN  IF t1.t = "ERROR" THEN [r |-> -EINVAL, id |-> 0]
             ELSE IF t1.t # "JSON_STRING" THEN [r |-> -EBADMSG, id |-> 0]
             ELSE IF t2.t = "ERROR" THEN [r |-> -EINVAL, id |-> 0]
             ELSE IF t2.t # "JSON_END" THEN [r |-> -EBADMSG, id |-> 0]
             ELSE IF ~dkr_id_is_valid(t1.str) THEN [r |-> -EBADMSG, id |-> 0]
             ELSE [r |-> 0, id |-> t1.str]

\* if (n+1 > LAYERS_MAX) return -EFBIG;
TooManyLayers(n) == n + 1 > LAYERS_MAX

\* Mutant: an id that occurs twice is let through.
AncestryEnd_NoUniq(l) ==
    IF strv_isempty(l) THEN [r |-> -EBADMSG, l |-> <<>>]
    ELSE [r |-> 0, l |-> strv_reverse(l)]

\* The check in STATE_END, and the reversal.
AncestryEnd(l) ==
    IF strv_isempty(l) THEN [r |-> -EBADMSG, l |-> <<>>]
    ELSE IF ~strv_is_uniq(l) THEN [r |-> -EBADMSG, l |-> <<>>]
    ELSE [r |-> 0, l |-> strv_reverse(l)]

\* One turn of the for(;;) loop of parse_ancestry: the token at p is read in
\* `state` with the list l so far; either the function returns (done) or the
\* loop goes on at p + 1.
Return(r, l) == [done |-> TRUE, r |-> r, l |-> l, p |-> 0, state |-> "STATE_END"]
Continue(p, state, l) == [done |-> FALSE, r |-> 0, l |-> l, p |-> p, state |-> state]

AncestryStep(toks, p, state, l) ==
    LET t == TokenAt(toks, p)
        bad == Return(-EBADMSG, <<>>)
    IN  IF t.t = "ERROR" THEN Return(-EINVAL, <<>>)
        ELSE CASE state = "STATE_BEGIN" ->
                    IF t.t = "JSON_ARRAY_OPEN" THEN Continue(p + 1, "STATE_ITEM", l)
                    ELSE bad
               [] state = "STATE_ITEM" ->
                    IF t.t = "JSON_STRING"
                    THEN IF ~dkr_id_is_valid(t.str) THEN bad
                         ELSE IF TooManyLayers(Len(l)) THEN Return(-EFBIG, <<>>)
                         ELSE Continue(p + 1, "STATE_COMMA", Append(l, t.str))
                    ELSE IF t.t = "JSON_ARRAY_CLOSE"
                    THEN Continue(p + 1, "STATE_END", l)
                    ELSE bad
               [] state = "STATE_COMMA" ->
                    IF t.t = "JSON_COMMA" THEN Continue(p + 1, "STATE_ITEM", l)
                    ELSE IF t.t = "JSON_ARRAY_CLOSE"
                    THEN Continue(p + 1, "STATE_END", l)
                    ELSE bad
               [] OTHER ->
                    IF t.t = "JSON_END"
                    THEN LET e == AncestryEnd(l) IN Return(e.r, e.l)
                    ELSE bad

\* The for(;;) loop of parse_ancestry: p the read position, l the list so far.
RECURSIVE AncestryLoop(_, _, _, _)
\* After a turn: the function has returned, or the next turn follows.
AncestryNext(toks, s) ==
    IF s.done THEN [r |-> s.r, l |-> s.l]
    ELSE AncestryLoop(toks, s.p, s.state, s.l)

AncestryLoop(toks, p, state, l) == AncestryNext(toks, AncestryStep(toks, p, state, l))

\* The checks before the loop: an empty payload and one with a NUL byte.
AncestryEntry(payload) ==
    IF Len(payload.toks) <= 0 THEN Return(-EBADMSG, <<>>)
    ELSE IF payload.nul THEN Return(-EBADMSG, <<>>)
    ELSE Continue(1, "STATE_BEGIN", <<>>)

parse_ancestry(payload) ==
    LET e == AncestryEntry(payload)
    IN  IF e.done THEN [r |-> e.r, l |-> e.l]
        ELSE AncestryLoop(payload.toks, e.p, e.state, e.l)

\* ------------------------------------------------------ small accessors
\* The layer the cursor is at, 0 (NULL) past the end.
dkr_import_current_layer(w) ==
    IF strv_isempty(w.ancestry) THEN 0
    ELSE IF w.current_ancestry < Len(w.ancestry)
         THEN w.ancestry[w.current_ancestry + 1]
         ELSE 0

dkr_import_current_base_layer(w) ==
    IF strv_isempty(w.ancestry) THEN 0
    ELSE IF w.current_ancestry <= 0 THEN 0
    ELSE w.ancestry[w.current_ancestry]

\* Mutant: a finished layer job is asked for, as the other four jobs are.
dkr_import_is_done_NeedsLayerJob(w) ==
    IF w.images_job.state # "IMPORT_JOB_DONE" THEN FALSE
    ELSE IF IsNull(w.tags_job) \/ w.tags_job.state # "IMPORT_JOB_DONE" THEN FALSE
    ELSE IF IsNull(w.ancestry_job) \/ w.ancestry_job.state # "IMPORT_JOB_DONE" THEN FALSE
    ELSE IF IsNull(w.json_job) \/ w.json_job.state # "IMPORT_JOB_DONE" THEN FALSE
    ELSE IF IsNull(w.layer_job) \/ w.layer_job.state # "IMPORT_JOB_DONE" THEN FALSE
    ELSE IF dkr_import_current_layer(w) # 0 THEN FALSE
    ELSE TRUE

\* Mutant: the json job is not waited for.
dkr_import_is_done_NoJson(w) ==
    IF w.images_job.state # "IMPORT_JOB_DONE" THEN FALSE
    ELSE IF IsNull(w.tags_job) \/ w.tags_job.state # "IMPORT_JOB_DONE" THEN FALSE
    ELSE IF IsNull(w.ancestry_job) \/ w.ancestry_job.state # "IMPORT_JOB_DONE" THEN FALSE
    ELSE IF ~IsNull(w.layer_job) /\ w.layer_job.state # "IMPORT_JOB_DONE" THEN FALSE
    ELSE IF dkr_import_current_layer(w) # 0 THEN FALSE
    ELSE TRUE

dkr_import_is_done(w) ==
    IF w.images_job.state # "IMPORT_JOB_DONE" THEN FALSE
    ELSE IF IsNull(w.tags_job) \/ w.tags_job.state # "IMPORT_JOB_DONE" THEN FALSE
    ELSE IF IsNull(w.ancestry_job) \/ w.ancestry_job.state # "IMPORT_JOB_DONE" THEN FALSE
    ELSE IF IsNull(w.json_job) \/ w.json_job.state # "IMPORT_JOB_DONE" THEN FALSE
    ELSE IF ~IsNull(w.layer_job) /\ w.layer_job.state # "IMPORT_JOB_DONE" THEN FALSE
    ELSE IF dkr_import_current_layer(w) # 0 THEN FALSE
    ELSE TRUE

\* ------------------------------------------------------------- progress
DKR_SEARCHING == "DKR_SEARCHING"
DKR_RESOLVING == "DKR_RESOLVING"
DKR_METADATA == "DKR_METADATA"
DKR_DOWNLOADING == "DKR_DOWNLOADING"
DKR_COPYING == "DKR_COPYING"

MAX(a, b) == IF a > b THEN a ELSE b

\* The share of a job in a phase: 0 when the job does not exist.
JobShare(j, weight) == IF IsNull(j) THEN 0 ELSE (j.progress_percent * weight) \div 100

\* The combined percentage of phase p, in unsigned arithmetic.
CombinedPercent(w, p) ==
    CASE p = DKR_SEARCHING -> 0 + JobShare(w.images_job, 5)
      [] p = DKR_RESOLVING -> 5 + JobShare(w.tags_job, 5)
      [] p = DKR_METADATA ->
            10 + JobShare(w.ancestry_job, 5) + JobShare(w.json_job, 5)
      [] p = DKR_DOWNLOADING ->
            20 + (75 * w.current_ancestry) \div MAX(1, w.n_ancestry)
               + (IF IsNull(w.layer_job) THEN 0
                  ELSE ((w.layer_job.progress_percent * 75)
                            \div MAX(1, w.n_ancestry)) \div 100)
      [] OTHER -> 95

\* sd_notifyf(false, "X_IMPORT_PROGRESS=%u", percent)
dkr_import_report_progress(w, p) ==
    [w EXCEPT !.reported = Append(@, CombinedPercent(w, p))]

\* The phase a job's progress belongs to.
PhaseOf(slot) ==
    CASE slot = "images_job" -> DKR_SEARCHING
      [] slot = "tags_job" -> DKR_RESOLVING
      [] slot \in {"ancestry_job", "json_job"} -> DKR_METADATA
      [] OTHER -> DKR_DOWNLOADING

\* The job in `slot` tells that its progress_percent changed.
dkr_import_job_on_progress(w, slot) == dkr_import_report_progress(w, PhaseOf(slot))

\* The finish: label of dkr_import_job_on_finished.
Finish(w, r) ==
    [w EXCEPT !.delivered =
        Append(@, [via |-> IF w.on_finished THEN "on_finished" ELSE "sd_event_exit",
                   r |-> r])]

\* ------------------------------------------------------ the filesystem
\* A subvolume: the layer it is for, the layer it was snapshotted from (0: made
\* empty), how far tar got writing it, whether whiteouts were resolved, whether
\* it is read-only, and who sealed it.
Subvol(layer, base) ==
    [layer |-> layer, base |-> base, written |-> "nothing", resolved |-> FALSE,
     ro |-> FALSE, by |-> "session"]

\* A layer another pull sealed.
ForeignLayer(layer) ==
    [layer |-> layer, base |-> 0, written |-> "complete", resolved |-> TRUE,
     ro |-> TRUE, by |-> "other"]

Without(f, k) == [x \in DOMAIN f \ {k} |-> f[x]]

\* laccess(path, F_OK) on a sealed path.
Exists(w, layer) == layer \in DOMAIN w.store

\* A name not in use: tempfn_random() for paths, fork() for pids (pids > 1).
FreshTemp(w) == CHOOSE n \in 1..(Cardinality(DOMAIN w.temps) + 1) : n \notin DOMAIN w.temps
FreshPid(w) == CHOOSE n \in 2..(Cardinality(w.children) + 2) : n \notin w.children

\* btrfs_subvol_remove() + rm_rf_dangerous(): the subvolume is gone.
RemoveTemp(w, path) ==
    IF path \in DOMAIN w.temps THEN [w EXCEPT !.temps = Without(@, path)] ELSE w

\* wait_for_terminate_and_warn("tar", pid, true): the child is reaped; a
\* non-zero exit and a signal are errors.
WaitResult(how) ==
    CASE how = "exit0" -> 0
      [] how = "exit1" -> -EPROTO
      [] OTHER -> -EPROTO

\* import_make_local_copy(final, image_root, local, force): the working copy
\* is a snapshot of the sealed layer; an existing one is replaced only with force.
import_make_local_copy(w, o) ==
    IF o.fail = "local_copy" THEN [w |-> w, r |-> -EIO]
    ELSE IF ~Exists(w, w.final_path) THEN [w |-> w, r |-> -EIO]
    ELSE IF w.local \in w.machines /\ ~w.force_local THEN [w |-> w, r |-> -EEXIST]
    ELSE [w |-> [w EXCEPT !.machines = @ \cup {w.local}, !.copies = @ + 1], r |-> 0]

dkr_import_make_local_copy(w, o) ==
    IF w.local = "" THEN [w |-> w, r |-> 0]
    ELSE IF w.final_path = 0 /\ o.fail = "strjoin" THEN [w |-> w, r |-> -ENOMEM]
    ELSE LET w1 == IF w.final_path = 0 THEN [w EXCEPT !.final_path = w.id] ELSE w
             c == import_make_local_copy(w1, o)
         IN  IF c.r < 0 THEN c ELSE [w |-> c.w, r |-> 0]

\* ---------------------------------------------------------- on_open_disk
dkr_import_job_on_open_disk(w, o) ==
    IF w.final_path = 0 THEN [w |-> Abort(w, "on_open_disk: final_path"), r |-> 0]
    ELSE IF w.temp_path # 0 THEN [w |-> Abort(w, "on_open_disk: !temp_path"), r |-> 0]
    ELSE IF ~(w.tar_pid <= 0) THEN [w |-> Abort(w, "on_open_disk: tar_pid"), r |-> 0]
    ELSE IF o.fail = "tempfn" THEN [w |-> w, r |-> -ENOMEM]
    ELSE
    LET t == FreshTemp(w)
        w1 == [w EXCEPT !.temp_path = t]
        base == dkr_import_current_base_layer(w1)
        made == IF base # 0 THEN Exists(w1, base) /\ o.fail # "subvol"
                ELSE o.fail # "subvol"
    IN  IF ~made THEN [w |-> w1, r |-> -EIO]
        ELSE
        LET w2 == [w1 EXCEPT !.temps = @ @@ (t :> Subvol(w1.final_path, base))]
        IN  IF o.fail = "fork" THEN [w |-> w2, r |-> -ENOMEM]
            ELSE
            LET pid == FreshPid(w2)
            IN  [w |-> [w2 EXCEPT !.tar_pid = pid,
                                  !.children = @ \cup {pid},
                                  !.temps[t].written = "partial",
                                  !.layer_job.disk_fd = 3],
                 r |-> 0]

\* --------------------------------------------------------------- pull_layer
\* Mutant: the store is not probed, the layer at the cursor is pulled.
PullLayerLoop_NoProbe(w, o) ==
    [w |-> w, r |-> 0, layer |-> dkr_import_current_layer(w)]

\* The for(;;) loop: skip the layers already in the store.  `layer` is the
\* layer to pull, 0 when none is left or the probe failed (r < 0).
RECURSIVE PullLayerLoop(_, _)
PullLayerLoop(w, o) ==
    LET layer == dkr_import_current_layer(w)
    IN  IF layer = 0 THEN [w |-> w, r |-> 0, layer |-> 0]
        ELSE IF o.fail = "laccess" /\ o.at = w.current_ancestry
        THEN [w |-> w, r |-> -EIO, layer |-> 0]
        ELSE IF ~Exists(w, layer) THEN [w |-> w, r |-> 0, layer |-> layer]
        ELSE PullLayerLoop([w EXCEPT !.current_ancestry = @ + 1], o)

dkr_import_pull_layer(w, o) ==
    IF ~IsNull(w.layer_job) THEN [w |-> Abort(w, "pull_layer: !layer_job"), r |-> 0]
    ELSE IF w.temp_path # 0 THEN [w |-> Abort(w, "pull_layer: !temp_path"), r |-> 0]
    ELSE IF w.final_path # 0 THEN [w |-> Abort(w, "pull_layer: !final_path"), r |-> 0]
    ELSE
    LET lp == PullLayerLoop(w, o)
    IN  IF lp.layer = 0 THEN [w |-> lp.w, r |-> lp.r]
        ELSE
        LET w1 == [lp.w EXCEPT !.final_path = lp.layer]
        IN  IF o.fail = "job_new" THEN [w |-> w1, r |-> -ENOMEM]
            ELSE
            LET w2 == [w1 EXCEPT !.layer_job = NewJob, !.layer_jobs = @ + 1]
            IN  IF o.fail = "add_token" THEN [w |-> w2, r |-> -ENOMEM]
                ELSE IF o.fail = "job_begin" THEN [w |-> w2, r |-> -EIO]
                ELSE [w |-> Begin(w2, "layer_job", lp.layer), r |-> 0]

\* -------------------------------------------------------------- on_finished
\* A branch of dkr_import_job_on_finished ends in one of three ways: `go` is
\* "finish" (goto finish with r), "tail" (fall through to the is_done check)
\* or "abort" (an assertion failed).
Goto(w, r) == [w |-> w, r |-> r, go |-> "finish"]
Fall(w) == [w |-> w, r |-> 0, go |-> "tail"]
Stop(w, what) == [w |-> Abort(w, what), r |-> 0, go |-> "abort"]

\* i->images_job == j
ImagesBranch(w, o) ==
    IF ~IsNull(w.tags_job) THEN Stop(w, "images: !tags_job")
    ELSE IF ~IsNull(w.ancestry_job) THEN Stop(w, "images: !ancestry_job")
    ELSE IF ~IsNull(w.json_job) THEN Stop(w, "images: !json_job")
    ELSE IF ~IsNull(w.layer_job) THEN Stop(w, "images: !layer_job")
    ELSE IF strv_isempty(w.response_registries) THEN Goto(w, -EBADMSG)
    ELSE
    LET w0 == dkr_import_report_progress(w, DKR_RESOLVING)
    IN
    IF o.fail = "job_new" THEN Goto(w0, -ENOMEM)
    ELSE LET w1 == [w0 EXCEPT !.tags_job = NewJob]
         IN  IF o.fail = "add_token" THEN Goto(w1, -ENOMEM)
             ELSE IF o.fail = "job_begin" THEN Goto(w1, -EIO)
             ELSE Fall(Begin(w1, "tags_job", 0))

\* i->tags_job == j
TagsBranch(w, payload, o) ==
    IF ~IsNull(w.ancestry_job) THEN Stop(w, "tags: !ancestry_job")
    ELSE IF ~IsNull(w.json_job) THEN Stop(w, "tags: !json_job")
    ELSE IF ~IsNull(w.layer_job) THEN Stop(w, "tags: !layer_job")
    ELSE
    LET p == parse_id(payload)
    IN  IF p.r < 0 THEN Goto(w, p.r)
        ELSE
        LET w1 == dkr_import_report_progress([w EXCEPT !.id = p.id], DKR_METADATA)
        IN  IF o.fail = "job_new" THEN Goto(w1, -ENOMEM)
            ELSE
            LET w2 == [w1 EXCEPT !.ancestry_job = NewJob]
            IN  IF o.fail = "add_token" THEN Goto(w2, -ENOMEM)
                ELSE IF o.fail = "job_new2" THEN Goto(w2, -ENOMEM)
                ELSE
                LET w3 == [w2 EXCEPT !.json_job = NewJob]
                IN  IF o.fail = "add_token2" THEN Goto(w3, -ENOMEM)
                    ELSE IF o.fail = "job_begin" THEN Goto(w3, -EIO)
                    ELSE
                    LET w4 == Begin(w3, "ancestry_job", 0)
                    IN  IF o.fail = "job_begin2" THEN Goto(w4, -EIO)
                        ELSE Fall(Begin(w4, "json_job", 0))

\* Mutant: the last element is not compared with the resolved id.
AncestryMismatch_LengthOnly(l, wanted) == Len(l) <= 0

\* n <= 0 || !streq(ancestry[n-1], i->id)
AncestryMismatch(l, wanted) == Len(l) <= 0 \/ l[Len(l)] # wanted

\* i->ancestry_job == j
AncestryBranch(w, payload, o) ==
    IF ~IsNull(w.layer_job) THEN Stop(w, "ancestry: !layer_job")
    ELSE
    LET p == parse_ancestry(payload)
    IN  IF p.r < 0 THEN Goto(w, p.r)
        ELSE IF AncestryMismatch(p.l, w.id)
        THEN Goto([w EXCEPT !.ancestry_mismatch = TRUE], -EBADMSG)
        ELSE
        LET w1 == dkr_import_report_progress(
                      [w EXCEPT !.ancestry = p.l, !.n_ancestry = Len(p.l),
                                !.current_ancestry = 0], DKR_DOWNLOADING)
            q == dkr_import_pull_layer(w1, o)
        IN  IF q.w.aborted # "none" THEN [w |-> q.w, r |-> 0, go |-> "abort"]
            ELSE IF q.r < 0 THEN Goto(q.w, q.r)
            ELSE Fall(q.w)

HasTemp(w) == w.temp_path \in DOMAIN w.temps

Step(w, what) == [w EXCEPT !.steps = Append(@, what)]

\* Mutant: the result of awaiting tar is not looked at.
WaitFailed_Ignored(r) == FALSE

\* if (r < 0) goto finish, after wait_for_terminate_and_warn()
WaitFailed(r) == r < 0

\* Mutant: the sink stays open.
CloseSink_Leak(w) == w

\* j->disk_fd = safe_close(j->disk_fd)
CloseSink(w) == [w EXCEPT !.layer_job.disk_fd = -1]

\* Mutant: the child is reaped but i->tar_pid keeps its pid.
TarWait_KeepPid(w, how) ==
    LET w1 == [w EXCEPT !.children = @ \ {w.tar_pid}]
    IN  IF w1.temp_path \in DOMAIN w1.temps /\ how = "exit0"
        THEN [w1 EXCEPT !.temps[w1.temp_path].written = "complete"]
        ELSE w1

\* The child is reaped and its handle dropped: i->tar_pid = 0.  A tar that
\* exits with 0 has written the whole layer.
TarWait(w, how) ==
    LET w1 == [w EXCEPT !.children = @ \ {w.tar_pid}, !.tar_pid = 0]
    IN  IF HasTemp(w1) /\ how = "exit0"
        THEN [w1 EXCEPT !.temps[w1.temp_path].written = "complete"]
        ELSE w1

\* The sink is closed, then the tar child is awaited.
LayerReap(w, o) ==
    LET w1 == Step([CloseSink(w) EXCEPT !.steps = <<>>], "close")
    IN  IF w1.tar_pid > 0
        THEN LET r == WaitResult(o.tar)
             IN  [w |-> Step(TarWait(w1, o.tar), IF r < 0 THEN "wait failed" ELSE "wait"),
                  r |-> r]
        ELSE [w |-> w1, r |-> 0]

\* Mutant: a failure to mark the subvolume read-only is ignored.
LayerSeal_IgnoreReadOnly(w, o) ==
    IF o.fail = "aufs" \/ ~HasTemp(w) THEN [w |-> w, r |-> -EIO, ok |-> FALSE]
    ELSE
    LET w1 == Step([w EXCEPT !.temps[w.temp_path].resolved = TRUE], "aufs_resolve")
        w2 == IF o.fail = "read_only" THEN w1
              ELSE Step([w1 EXCEPT !.temps[w.temp_path].ro = TRUE], "set_read_only")
    IN  IF o.fail = "rename" \/ Exists(w2, w2.final_path)
        THEN [w |-> Step(w2, "rename failed"), r |-> 0, ok |-> FALSE]
        ELSE [w |-> Step([w2 EXCEPT
                            !.store = @ @@ (w2.final_path :> w2.temps[w2.temp_path]),
                            !.temps = Without(@, w2.temp_path)], "rename"),
              r |-> 0, ok |-> TRUE]

\* aufs_resolve(), btrfs_subvol_set_read_only(), rename(): `ok` tells whether
\* the layer was renamed into the store.  A failed rename leaves r as
\* btrfs_subvol_set_read_only() returned it.
LayerSeal(w, o) ==
    IF o.fail = "aufs" \/ ~HasTemp(w) THEN [w |-> w, r |-> -EIO, ok |-> FALSE]
    ELSE
    LET w1 == Step([w EXCEPT !.temps[w.temp_path].resolved = TRUE], "aufs_resolve")
    IN  IF o.fail = "read_only" THEN [w |-> w1, r |-> -EIO, ok |-> FALSE]
        ELSE
        LET w2 == Step([w1 EXCEPT !.temps[w.temp_path].ro = TRUE], "set_read_only")
        IN  IF o.fail = "rename" \/ Exists(w2, w2.final_path)
            THEN [w |-> Step(w2, IF Exists(w2, w2.final_path) THEN "rename EEXIST"
                                 ELSE "rename failed"),
                  r |-> 0, ok |-> FALSE]
            ELSE [w |-> Step([w2 EXCEPT
                                !.store = @ @@ (w2.final_path :> w2.temps[w2.temp_path]),
                                !.temps = Without(@, w2.temp_path)], "rename"),
                  r |-> 0, ok |-> TRUE]

\* Mutant: temp_path is not cleared.
LayerAdvance_KeepTempPath(w) ==
    [w EXCEPT !.layer_job = NullJob, !.layer_jobs = @ - 1,
              !.final_path = 0, !.current_ancestry = @ + 1]

\* Mutant: final_path is not cleared.
LayerAdvance_KeepFinalPath(w) ==
    [w EXCEPT !.layer_job = NullJob, !.layer_jobs = @ - 1, !.temp_path = 0,
              !.current_ancestry = @ + 1]

\* The layer is in the store: forget it and move the cursor on.
LayerAdvance(w) ==
    [w EXCEPT !.layer_job = NullJob, !.layer_jobs = @ - 1, !.temp_path = 0,
              !.final_path = 0, !.current_ancestry = @ + 1]

\* i->layer_job == j
LayerBranch(w, o) ==
    IF w.temp_path = 0 THEN Stop(w, "layer: temp_path")
    ELSE IF w.final_path = 0 THEN Stop(w, "layer: final_path")
    ELSE
    LET a == LayerReap(w, o)
    IN  IF WaitFailed(a.r) THEN Goto(a.w, a.r)
        ELSE
        LET b == LayerSeal(a.w, o)
        IN  IF ~b.ok THEN Goto(b.w, b.r)
            ELSE
            LET q == dkr_import_pull_layer(LayerAdvance(b.w), o)
            IN  IF q.w.aborted # "none" THEN [w |-> q.w, r |-> 0, go |-> "abort"]
                ELSE IF q.r < 0 THEN Goto(q.w, q.r)
                ELSE Fall(q.w)

\* if (!dkr_import_is_done(i)) return; ... finish:
Completion(w, o) ==
    IF IsNull(w.images_job) THEN Abort(w, "is_done: images_job")
    ELSE IF ~dkr_import_is_done(w) THEN w
    ELSE LET c == dkr_import_make_local_copy(
                      dkr_import_report_progress(w, DKR_COPYING), o)
         IN  Finish(c.w, c.r)

\* The callback of the job in `slot`, which the job layer has marked finished.
dkr_import_job_on_finished(w, slot, payload, o) ==
    IF w[slot].error # 0 THEN Finish(w, w[slot].error)
    ELSE
    LET b == CASE slot = "images_job" -> ImagesBranch(w, o)
               [] slot = "tags_job" -> TagsBranch(w, payload, o)
               [] slot = "ancestry_job" -> AncestryBranch(w, payload, o)
               [] slot = "layer_job" -> LayerBranch(w, o)
               [] OTHER -> Fall(w)
    IN  CASE b.go = "abort" -> b.w
          [] b.go = "finish" -> Finish(b.w, b.r)
          [] OTHER -> Completion(b.w, o)

\* ------------------------------------------------------------ on_header
\* A response header of the images job: kind "token" carries the token,
\* kind "registry" the comma-separated hostnames ("!" is no valid hostname),
\* any other header is ignored.
hostname_is_valid(h) == h # "!"

\* Mutant: the list is replaced before its hostnames are checked.
dkr_import_job_on_header_AssignFirst(w, h) ==
    IF h.kind = "token" THEN [w |-> [w EXCEPT !.response_token = h.value], r |-> 0]
    ELSE IF h.kind = "registry"
    THEN [w |-> [w EXCEPT !.response_registries = h.hosts],
          r |-> IF \E k \in 1..Len(h.hosts) : ~hostname_is_valid(h.hosts[k])
                THEN -EBADMSG ELSE 0]
    ELSE [w |-> w, r |-> 0]

dkr_import_job_on_header(w, h) ==
    IF h.kind = "token" THEN [w |-> [w EXCEPT !.response_token = h.value], r |-> 0]
    ELSE IF h.kind = "registry"
    THEN IF \E k \in 1..Len(h.hosts) : ~hostname_is_valid(h.hosts[k])
         THEN [w |-> w, r |-> -EBADMSG]
         ELSE [w |-> [w EXCEPT !.response_registries = h.hosts], r |-> 0]
    ELSE [w |-> w, r |-> 0]

\* ------------------------------------------------------------------- pull
dkr_name_is_valid(s) == s \notin {"", "!"}
dkr_tag_is_valid(s) == s \notin {"", "!"}
machine_name_is_valid(s) == s \notin {"", "!"}

\* Mutant: the session is busy only until the images job has finished.
PullBusy_WhileRunning(w) == w.images_job.state \in {"INIT", "RUNNING"}

\* Mutant: a pull in progress is not noticed.
PullBusy_Never(w) == FALSE

\* if (i->images_job) return -EBUSY;
PullBusy(w) == ~IsNull(w.images_job)

dkr_import_pull(w, nm, tg, lc, force, o) ==
    IF ~dkr_name_is_valid(nm) THEN [w EXCEPT !.pull_ret = -EINVAL]
    ELSE IF tg # "" /\ ~dkr_tag_is_valid(tg) THEN [w EXCEPT !.pull_ret = -EINVAL]
    ELSE IF lc # "" /\ ~machine_name_is_valid(lc) THEN [w EXCEPT !.pull_ret = -EINVAL]
    ELSE IF PullBusy(w) THEN [w EXCEPT !.pull_ret = -EBUSY]
    ELSE IF o.fail = "strdup_local" THEN [w EXCEPT !.pull_ret = -ENOMEM]
    ELSE
    LET w1 == [w EXCEPT !.local = lc, !.force_local = force]
    IN  IF o.fail = "strdup_name" THEN [w1 EXCEPT !.pull_ret = -ENOMEM]
        ELSE
        LET w2 == [w1 EXCEPT !.name = nm]
        IN  IF o.fail = "strdup_tag" THEN [w2 EXCEPT !.pull_ret = -ENOMEM]
            ELSE
            LET w3 == [w2 EXCEPT !.tag = IF tg = "" THEN "latest" ELSE tg]
            IN  IF o.fail = "job_new" THEN [w3 EXCEPT !.pull_ret = -ENOMEM]
                ELSE
                LET w4 == [w3 EXCEPT !.images_job = NewJob]
                IN  IF o.fail = "add_token" THEN [w4 EXCEPT !.pull_ret = -ENOMEM]
                    ELSE IF o.fail = "job_begin" THEN [w4 EXCEPT !.pull_ret = -EIO]
                    ELSE [Begin(w4, "images_job", 0) EXCEPT !.pull_ret = 0]

\* ------------------------------------------------------------------ unref
\* Mutant: the temporary subvolume is left behind.
dkr_import_unref_KeepTemp(w) ==
    LET w1 == IF w.tar_pid > 1
              THEN [w EXCEPT !.children = @ \ {w.tar_pid}]
              ELSE w
    IN  [w1 EXCEPT !.images_job = NullJob, !.tags_job = NullJob,
                   !.ancestry_job = NullJob, !.json_job = NullJob,
                   !.layer_job = NullJob,
                   !.layer_jobs = IF IsNull(w1.layer_job) THEN @ ELSE @ - 1,
                   !.destroyed = TRUE]

dkr_import_unref(w) ==
    LET w1 == IF w.tar_pid > 1
              THEN [w EXCEPT !.children = @ \ {w.tar_pid}]
              ELSE w
        w2 == [w1 EXCEPT !.images_job = NullJob, !.tags_job = NullJob,
                         !.ancestry_job = NullJob, !.json_job = NullJob,
                         !.layer_job = NullJob,
                         !.layer_jobs = IF IsNull(w1.layer_job) THEN @ ELSE @ - 1]
        w3 == IF w2.temp_path # 0 THEN RemoveTemp(w2, w2.temp_path) ELSE w2
    IN  [w3 EXCEPT !.destroyed = TRUE]

\* A call of dkr_import_pull() by the user of the session; the history keeps
\* whether a result had been delivered when it was made.
PullCall(w, a, o) ==
    [dkr_import_pull(w, a.name, a.tag, a.local, a.force, o)
        EXCEPT !.pull_after = (w.delivered # <<>>)]

\* ---------------------------------------------------------------- inputs
\* The calls of dkr_import_pull() offered: every argument valid, or one invalid
\* ("!" makes a string fail its predicate, "" is a NULL argument).
PullArgs ==
    {[name |-> "repo", tag |-> "", local |-> lc, force |-> f] :
        lc \in {"", "m1"}, f \in BOOLEAN}
        \cup {[name |-> "!", tag |-> "", local |-> "", force |-> FALSE],
              [name |-> "repo", tag |-> "!", local |-> "", force |-> FALSE],
              [name |-> "repo", tag |-> "", local |-> "!", force |-> FALSE]}

\* A call for another image, offered while a pull is in progress.  (As the
\* first call of a session it would behave as the call for "repo" does.)
BusyArgs == {[name |-> "repo2", tag |-> "v2", local |-> "m2", force |-> TRUE]}

\* The call gets past the checks, so that its library calls run.
PullAccepts(w, a) ==
    /\ dkr_name_is_valid(a.name)
    /\ a.tag # "" => dkr_tag_is_valid(a.tag)
    /\ a.local # "" => machine_name_is_valid(a.local)
    /\ IsNull(w.images_job)

Fails(names) == {Oracle(f, 0, "exit0") : f \in names \cup {"none"}}

PullOracles == Fails({"strdup_local", "strdup_name", "strdup_tag", "job_new",
                      "add_token", "job_begin"})
CopyFails == {"strjoin", "local_copy"}
ImagesOracles == Fails({"job_new", "add_token", "job_begin"})
TagsOracles == Fails({"job_new", "add_token", "job_new2", "add_token2",
                      "job_begin", "job_begin2"})
LayerFails == {"job_new", "add_token", "job_begin"}
AncestryOracles ==
    Fails(LayerFails \cup CopyFails)
        \cup {Oracle("laccess", k, "exit0") : k \in 0..(MaxLayers - 1)}
JsonOracles == Fails(CopyFails)
LayerOracles ==
    {Oracle(f, 0, t) : f \in {"none", "aufs", "read_only", "rename"} \cup LayerFails
                                \cup CopyFails,
                       t \in {"exit0", "exit1", "signal"}}
        \cup {Oracle("laccess", k, "exit0") : k \in 0..(MaxLayers - 1)}
OpenDiskOracles == Fails({"tempfn", "subvol", "fork"})

\* The error a transfer can end with.
JobErrors == {0, -EIO}

Headers ==
    {[kind |-> "token", value |-> "T", hosts |-> <<>>],
     [kind |-> "other", value |-> "", hosts |-> <<>>]}
        \cup {[kind |-> "registry", value |-> "", hosts |-> h] :
                 h \in {<<>>, <<"r1">>, <<"r2", "!">>}}

\* What the registry answers to the tags request.
TagPayloads ==
    {Payload(<<T_STR(k)>>, FALSE) : k \in LayerIds \cup {BadId}}
        \cup {Payload(<<T_STR(1), T_OTHER>>, FALSE), Payload(<<T_STR(1)>>, TRUE),
              Payload(<<T_ERR>>, FALSE), Payload(<<>>, FALSE)}

\* ["k", ..., "1"]: the ancestry of layer k, newest first.
RECURSIVE Chain(_)
Chain(k) == IF k = 1 THEN <<T_STR(1)>> ELSE <<T_STR(k), T_COMMA>> \o Chain(k - 1)
AncestryOf(k) == <<T_OPEN>> \o Chain(k) \o <<T_CLOSE>>

AncestryPayloads ==
    {Payload(AncestryOf(k), FALSE) : k \in LayerIds}
        \cup {Payload(<<T_OPEN, T_CLOSE>>, FALSE),
              Payload(<<T_OPEN, T_STR(1), T_COMMA, T_STR(1), T_CLOSE>>, FALSE),
              Payload(<<T_OPEN, T_STR(1)>>, FALSE)}
NoPayload == Payload(<<>>, FALSE)

\* ---------------------------------------------------------------- actions
Live == ~destroyed /\ aborted = "none"

\* The session as dkr_import_new() leaves it.
NewSession ==
    /\ images_job = NullJob /\ tags_job = NullJob /\ ancestry_job = NullJob
    /\ json_job = NullJob /\ layer_job = NullJob
    /\ name = "" /\ tag = "" /\ id = 0
    /\ response_token = "" /\ response_registries = <<>>
    /\ ancestry = <<>> /\ n_ancestry = 0 /\ current_ancestry = 0
    /\ on_finished \in BOOLEAN
    /\ local = "" /\ force_local = FALSE
    /\ temp_path = 0 /\ final_path = 0 /\ tar_pid = 0
    /\ store = <<>> /\ temps = <<>> /\ children = {} /\ layer_jobs = 0
    /\ machines \in {{}, {"m1"}}
    /\ requests = <<>> /\ delivered = <<>> /\ steps = <<>> /\ copies = 0
    /\ ancestry_mismatch = FALSE
    /\ reported = <<>>
    /\ pull_after = FALSE
    /\ pull_ret = 0 /\ aborted = "none" /\ destroyed = FALSE

Init == NewSession /\ parser = NoParse

Pull ==
    /\ Live
    /\ \E a \in PullArgs \cup BusyArgs, o \in PullOracles :
          /\ a \in BusyArgs => ~IsNull(images_job)
          /\ o # NoFail => PullAccepts(World, a)
          /\ Commit(PullCall(World, a, o))

\* A response header arrives for the images job.  A header the callback
\* rejects fails the transfer.
ImagesHeader ==
    /\ Live /\ images_job.state = "RUNNING"
    /\ \E h \in Headers :
          LET a == dkr_import_job_on_header(World, h)
          IN  IF a.r < 0
              THEN Commit(dkr_import_job_on_finished(
                              JobFinish(a.w, "images_job", a.r), "images_job",
                              NoPayload, NoFail))
              ELSE Commit(a.w)

ImagesFinished ==
    /\ Live /\ images_job.state = "RUNNING"
    /\ \E e \in JobErrors, o \in ImagesOracles :
          /\ e # 0 => o = NoFail
          /\ Commit(dkr_import_job_on_finished(JobFinish(World, "images_job", e),
                                            "images_job", NoPayload, o))

TagsFinished ==
    /\ Live /\ tags_job.state = "RUNNING"
    /\ \E e \in JobErrors, p \in TagPayloads, o \in TagsOracles :
          /\ e # 0 => (o = NoFail /\ p = NoPayload)
          /\ parse_id(p).r < 0 => o = NoFail
          /\ Commit(dkr_import_job_on_finished(JobFinish(World, "tags_job", e),
                                            "tags_job", p, o))

AncestryFinished ==
    /\ Live /\ ancestry_job.state = "RUNNING"
    /\ \E e \in JobErrors, p \in AncestryPayloads \cup {NoPayload},
          o \in AncestryOracles :
          /\ e # 0 => (o = NoFail /\ p = NoPayload)
          /\ e = 0 => p # NoPayload
          /\ parse_ancestry(p).r < 0 => o = NoFail
          /\ Commit(dkr_import_job_on_finished(JobFinish(World, "ancestry_job", e),
                                            "ancestry_job", p, o))

JsonFinished ==
    /\ Live /\ json_job.state = "RUNNING"
    /\ \E e \in JobErrors, o \in JsonOracles :
          /\ e # 0 => o = NoFail
          /\ Commit(dkr_import_job_on_finished(JobFinish(World, "json_job", e),
                                            "json_job", NoPayload, o))

\* The first body byte of the layer arrives: on_open_disk runs, once per job.
\* When it fails the transfer fails with its error.
LayerOpenDisk ==
    /\ Live /\ layer_job.state = "RUNNING" /\ layer_job.disk_fd < 0
    /\ \E o \in OpenDiskOracles :
          LET a == dkr_import_job_on_open_disk(World, o)
          IN  IF a.w.aborted # "none" THEN Commit(a.w)
              ELSE IF a.r < 0
              THEN Commit(dkr_import_job_on_finished(
                              JobFinish(a.w, "layer_job", a.r), "layer_job",
                              NoPayload, NoFail))
              ELSE Commit(a.w)

\* The layer transfer ends: with an error at any time, with success only
\* after on_open_disk gave it a sink.
LayerFinished ==
    /\ Live /\ layer_job.state = "RUNNING"
    /\ \E e \in JobErrors, o \in LayerOracles :
          /\ e = 0 => layer_job.disk_fd >= 0
          /\ e # 0 => o = NoFail
          /\ Commit(dkr_import_job_on_finished(JobFinish(World, "layer_job", e),
                                               "layer_job", NoPayload, o))

\* Another pull seals a layer in the same image root.
OtherPullSeals ==
    /\ ~destroyed
    /\ \E k \in LayerIds :
          /\ k \notin DOMAIN store
          /\ store' = store @@ (k :> ForeignLayer(k))
          /\ UNCHANGED <<images_job, tags_job, ancestry_job, json_job, layer_job,
                         name, tag, id, response_token, response_registries,
                         ancestry, n_ancestry, current_ancestry, on_finished,
                         local, force_local, temp_path, final_path, tar_pid,
                         temps, children, layer_jobs, machines, requests,
                         delivered, steps,
                         ancestry_mismatch,
                         reported,
                         parser,
                         pull_after,
                         copies, pull_ret, aborted, destroyed>>

Destroy ==
    /\ Live
    /\ Commit(dkr_import_unref(World))

Next ==
    \/ Pull
    \/ ImagesHeader
    \/ ImagesFinished
    \/ TagsFinished
    \/ AncestryFinished
    \/ JsonFinished
    \/ LayerOpenDisk
    \/ LayerFinished
    \/ OtherPullSeals
    \/ Destroy

Spec == Init /\ [][Next]_vars

\* ------------------------------------------------- pulls with progress
\* The pull in which nothing fails, with the progress callbacks of its jobs:
\* every registry answer is well-formed, every transfer ends with success and
\* every library call succeeds; the callbacks interleave freely.
\* The value a job's progress_percent takes after 0 (one progress callback
\* per transfer).
Percents == {100}
JobSlots == {"images_job", "tags_job", "ancestry_job", "json_job", "layer_job"}

\* The job layer raises progress_percent of a running transfer before it
\* calls on_progress.
SetProgress(w, slot, pc) == [w EXCEPT ![slot].progress_percent = pc]

JobProgress ==
    /\ Live
    /\ \E slot \in JobSlots, pc \in Percents :
          /\ World[slot].state = "RUNNING"
          /\ pc > World[slot].progress_percent
          /\ Commit(dkr_import_job_on_progress(SetProgress(World, slot, pc), slot))

GoodPull ==
    /\ Live
    /\ \E a \in PullArgs :
          /\ PullAccepts(World, a)
          /\ Commit(PullCall(World, a, NoFail))

GoodHeader ==
    /\ Live /\ images_job.state = "RUNNING" /\ response_registries = <<>>
    /\ Commit(dkr_import_job_on_header(
                  World, [kind |-> "registry", value |-> "", hosts |-> <<"r1">>]).w)

\* A transfer ends with success; the tags payload is an id, the ancestry
\* payload the ancestry of the resolved id.
GoodFinished ==
    /\ Live
    /\ \E slot \in JobSlots, k \in LayerIds :
          /\ World[slot].state = "RUNNING"
          /\ slot = "images_job" => response_registries # <<>>
          /\ slot = "layer_job" => layer_job.disk_fd >= 0
          /\ slot # "tags_job" => k = 1
          /\ Commit(dkr_import_job_on_finished(
                        JobFinish(World, slot, 0), slot,
                        CASE slot = "tags_job" -> Payload(<<T_STR(k)>>, FALSE)
                          [] slot = "ancestry_job" -> Payload(AncestryOf(id), FALSE)
                          [] OTHER -> NoPayload,
                        NoFail))

GoodOpenDisk ==
    /\ Live /\ layer_job.state = "RUNNING" /\ layer_job.disk_fd < 0
    /\ Commit(dkr_import_job_on_open_disk(World, NoFail).w)

ProgressNext ==
    \/ GoodPull
    \/ GoodHeader
    \/ GoodFinished
    \/ GoodOpenDisk
    \/ JobProgress

ProgressSpec == Init /\ [][ProgressNext]_vars

\* ------------------------------------------------------------- the parser
\* parse_ancestry() on its own: a payload is chosen at the start, the function
\* is entered and its loop runs turn by turn until it returns.
MaxTokens == 5
ParseTokens ==
    {T_OPEN, T_CLOSE, T_COMMA, T_STR(1), T_STR(2), T_STR(BadId), T_OTHER, T_ERR}
ShortPayloads == UNION {[1..n -> ParseTokens] : n \in 0..MaxTokens}

\* ["1", "2", ..., "n"]
LongArray(n) ==
    [k \in 1..(2 * n + 1) |->
        IF k = 1 THEN T_OPEN
        ELSE IF k = 2 * n + 1 THEN T_CLOSE
        ELSE IF k % 2 = 0 THEN T_STR(k \div 2)
        ELSE T_COMMA]

\* The same with "1" again in the last place.
LongArrayDup(n) == [LongArray(n) EXCEPT ![2 * n] = T_STR(1)]

ParsePayloads ==
    {Payload(t, FALSE) : t \in ShortPayloads}
        \cup {Payload(<<T_OPEN, T_STR(1), T_CLOSE>>, TRUE)}
        \cup {Payload(LongArray(n), FALSE) : n \in {LAYERS_MAX, LAYERS_MAX + 1}}
        \cup {Payload(LongArrayDup(n), FALSE) : n \in {LAYERS_MAX, LAYERS_MAX + 1}}

Called(payload) ==
    [toks |-> payload.toks, nul |-> payload.nul, p |-> 0, state |-> "entry",
     l |-> <<>>, done |-> FALSE, r |-> 0]

AllButParser ==
    <<images_job, tags_job, ancestry_job, json_job, layer_job, name, tag, id,
      response_token, response_registries, ancestry, n_ancestry,
      current_ancestry, on_finished, local, force_local, temp_path,
      final_path, tar_pid, store, temps, children, layer_jobs, machines,
      requests, ancestry_mismatch, reported, delivered, steps, copies,
      pull_ret, pull_after, aborted, destroyed>>

Returned(s) ==
    [parser EXCEPT !.p = s.p, !.state = s.state, !.l = s.l, !.done = s.done,
                   !.r = s.r]

ParseInit ==
    /\ NewSession /\ on_finished /\ machines = {}
    /\ parser \in {Called(pl) : pl \in ParsePayloads}

ParseEntry ==
    /\ parser.state = "entry" /\ ~parser.done
    /\ parser' = Returned(AncestryEntry(Payload(parser.toks, parser.nul)))
    /\ UNCHANGED AllButParser

ParseTurn ==
    /\ parser.state \notin {"entry", "none"} /\ ~parser.done
    /\ parser' = Returned(AncestryStep(parser.toks, parser.p, parser.state, parser.l))
    /\ UNCHANGED AllButParser

ParseNext ==
    \/ ParseEntry
    \/ ParseTurn

ParseSpec == ParseInit /\ [][ParseNext]_vars

\* ------------------------------------------------- pulls that are waited for
\* The session is not destroyed and is not called again once a pull was
\* accepted; every job that was started reports on_finished in the end,
\* with success or with an error.
FirstPull ==
    /\ Live /\ IsNull(images_job)
    /\ \E a \in PullArgs, o \in PullOracles :
          /\ PullAccepts(World, a)
          /\ Commit(PullCall(World, a, o))

WaitNext ==
    \/ FirstPull
    \/ ImagesHeader
    \/ ImagesFinished
    \/ TagsFinished
    \/ AncestryFinished
    \/ JsonFinished
    \/ LayerOpenDisk
    \/ LayerFinished
    \/ OtherPullSeals

JobsReport ==
    /\ WF_vars(ImagesFinished) /\ WF_vars(TagsFinished)
    /\ WF_vars(AncestryFinished) /\ WF_vars(JsonFinished)
    /\ WF_vars(LayerFinished)

WaitSpec == Init /\ [][WaitNext]_vars /\ JobsReport

\* ================================================================ claims
DONE == "IMPORT_JOB_DONE"
FAILED == "IMPORT_JOB_FAILED"
IsLayerRequest(q) == q.kind = "layer_job"
LayerRequests == SelectSeq(requests, IsLayerRequest)
\* The layers this session renamed into the store.
SessionSealed == {k \in DOMAIN store : store[k].by = "session"}
JobFailed ==
    \E j \in {images_job, tags_job, ancestry_job, json_job, layer_job} : j.state = FAILED
ErrorDelivered == \E k \in 1..Len(delivered) : delivered[k].r < 0
TarFailed == Len(steps) >= 2 /\ steps[2] = "wait failed"
RenameConflict == steps # <<>> /\ steps[Len(steps)] = "rename EEXIST"
SealSteps == <<"close", "wait", "aufs_resolve", "set_read_only", "rename">>

C2_NothingAfterError ==
    [][(JobFailed /\ ErrorDelivered) =>
                         /\ requests' = requests
                         /\ SessionSealed' = SessionSealed
                         /\ copies' = copies]_vars

\* C3: when the layer completion finds that tar failed (non-zero exit or
\* signal), an extraction error is delivered, the layer is never sealed by
\* this session (its temp stays a temp until teardown) and the child is reaped.
C3_TarFailure ==
    TarFailed =>
        /\ \E k \in 1..Len(delivered) : delivered[k].r = -EPROTO
        /\ final_path # 0 /\ final_path \notin SessionSealed
        /\ destroyed \/ temp_path \in DOMAIN temps
        /\ tar_pid = 0 /\ children = {}

C3_Witness == TarFailed /\ ~destroyed /\ delivered # <<>>

\* C4, as stated: when the rename fails because the final path exists, what is
\* delivered is a negative error code, never success.
C4_ConflictIsError ==
    RenameConflict => (delivered # <<>> /\ \A k \in 1..Len(delivered) : delivered[k].r < 0)

\* C5: every layer this session sealed was written completely by a tar that
\* exited with 0, had its whiteouts resolved and is read-only; and a layer
\* becomes sealed by this session only in the successful completion of the
\* layer job, after close, wait, aufs_resolve and set_read_only, in this order.
C5_SealedWhole ==
    \A k \in SessionSealed :
        /\ store[k].layer = k
        /\ store[k].written = "complete"
        /\ store[k].resolved
        /\ store[k].ro

C5_SealOnlyByRename ==
    [][SessionSealed' # SessionSealed =>
          /\ layer_job.state = "RUNNING" /\ layer_job.disk_fd >= 0
          /\ final_path \notin DOMAIN store
          /\ SessionSealed' = SessionSealed \cup {final_path}
          /\ steps' = SealSteps]_vars

C5_NoHalfWrittenLayer == []C5_SealedWhole /\ C5_SealOnlyByRename

C5_Witness == SessionSealed # {} /\ steps = SealSteps

\* C6: layer requests are issued in strictly increasing ancestry index, each
\* for the layer at that index, which was absent from the store then, and with
\* the layer below it present; whenever on_open_disk can run for an index > 0,
\* and in every temp it snapshotted, the layer below is in the store.
C6_LayerOrder ==
    LET q == LayerRequests
    IN  /\ \A a, b \in 1..Len(q) : a < b => q[a].index < q[b].index
        /\ \A a \in 1..Len(q) :
              /\ q[a].index < Len(ancestry)
              /\ q[a].layer = ancestry[q[a].index + 1]
              /\ q[a].absent
              /\ q[a].base_present
        /\ (Live /\ layer_job.state = "RUNNING" /\ layer_job.disk_fd < 0
                 /\ current_ancestry > 0)
              => ancestry[current_ancestry] \in DOMAIN store
        /\ \A t \in DOMAIN temps :
              temps[t].base # 0 => temps[t].base \in DOMAIN store

C6_Witness ==
    /\ Len(LayerRequests) >= 2
    /\ \E t \in DOMAIN temps : temps[t].base # 0

\* C7: at most one layer job object exists, it is the one in layer_job, and no
\* assertion of dkr_import_pull_layer (layer_job, temp_path and final_path all
\* unset when a layer job is about to be created) ever fails.
C7_OneLayerJob ==
    /\ layer_jobs <= 1
    /\ layer_jobs = 1 <=> ~IsNull(layer_job)
    /\ aborted \notin {"pull_layer: !layer_job", "pull_layer: !temp_path",
                       "pull_layer: !final_path"}

\* A second layer job, created after the first layer was sealed.
C7_Witness == Len(LayerRequests) >= 2 /\ layer_jobs = 1 /\ SessionSealed # {}

\* C8, as stated: whenever a layer job exists, its temp subvolume exists and
\* one tar child is alive.
C8_JobHasTempAndTar ==
    (~destroyed /\ ~IsNull(layer_job))
        => (temp_path \in DOMAIN temps /\ tar_pid > 0 /\ children = {tar_pid})

\* C8, amended: at most one layer job exists; while it holds an open sink
\* (from a successful on_open_disk until its completion closes it) the temp
\* subvolume of temp_path exists and exactly one tar child is held; a running
\* layer job that has no sink yet has no temp_path and no tar child.
C8_OpenJobHasTempAndTar ==
    /\ layer_jobs <= 1
    /\ layer_job.disk_fd >= 0
          => (temp_path \in DOMAIN temps /\ tar_pid > 0 /\ children = {tar_pid})
    /\ (layer_job.state = "RUNNING" /\ layer_job.disk_fd < 0)
          => (temp_path = 0 /\ tar_pid = 0 /\ children = {})

C8_Witness == layer_job.state = "RUNNING" /\ layer_job.disk_fd >= 0

\* C9, as stated: temp_path is set exactly when a tar child handle is held.
C9_TempIffTar == ~destroyed => (temp_path # 0 <=> tar_pid > 0)

\* C9, amended: a tar child handle is held only while temp_path is set; and
\* temp_path is set without a tar child only when the layer job has finished
\* (on_open_disk failed, or the completion reaped tar and then failed).
C9_TarImpliesTemp ==
    ~destroyed =>
        /\ tar_pid > 0 => temp_path # 0
        /\ (temp_path # 0 /\ tar_pid <= 0) => layer_job.state \in {DONE, FAILED}

\* The completion reaped tar and then failed: temp_path is left set.
C9_Witness ==
    /\ ~destroyed /\ temp_path # 0 /\ tar_pid = 0
    /\ Len(steps) >= 2 /\ steps[2] = "wait"

\* C10: after teardown no job is left, no tar child is unreaped and no temp
\* subvolume is left; before it, the only temp subvolume and the only tar
\* child are the ones recorded in temp_path and tar_pid.
C10_Teardown ==
    /\ destroyed =>
          /\ IsNull(images_job) /\ IsNull(tags_job) /\ IsNull(ancestry_job)
          /\ IsNull(json_job) /\ IsNull(layer_job) /\ layer_jobs = 0
          /\ children = {}
          /\ DOMAIN temps = {}
    /\ ~destroyed =>
          /\ DOMAIN temps \subseteq {temp_path}
          /\ children \subseteq {tar_pid}

\* Teardown ran while a temp subvolume and a tar child were held.
C10_Witness == destroyed /\ temp_path # 0 /\ tar_pid > 1

\* C11, as stated: once the parsed ancestry's last element was found to differ
\* from the resolved id, a protocol error has been delivered, no layer request
\* is ever issued, the ancestry and cursor are as they were (unset) and the
\* session has changed nothing on the filesystem: no temp, no sealed layer,
\* no local copy.
C11_MismatchNoEffect ==
    ancestry_mismatch =>
        /\ \E k \in 1..Len(delivered) : delivered[k].r = -EBADMSG
        /\ LayerRequests = <<>>
        /\ ancestry = <<>> /\ n_ancestry = 0 /\ current_ancestry = 0
        /\ DOMAIN temps = {} /\ SessionSealed = {}
        /\ copies = 0

\* C12, as stated: when the rename of this session loses against another pull
\* that sealed the same layer first, this session has not sealed the layer
\* itself, it has removed its temp, and it went on: either the transfer of the
\* next missing layer is under way, or the cursor is at the end of the
\* ancestry and, once the json job is done, the result delivered last is 0 and
\* the local copy (if one was asked for) was made.
C12_LoserGoesOn ==
    (RenameConflict /\ ~destroyed) =>
        /\ store[final_path].by = "other"
        /\ DOMAIN temps = {} /\ temp_path = 0
        /\ current_ancestry < n_ancestry => layer_job.state = "RUNNING"
        /\ (current_ancestry = n_ancestry /\ json_job.state = DONE) =>
              /\ delivered # <<>> /\ delivered[Len(delivered)].r = 0
              /\ local # "" => copies > 0

\* The ancestry was accepted and the cursor went to its end with no layer
\* request: every layer was found in the store, as after an earlier pull.
AllLayersFound ==
    /\ ancestry # <<>> /\ ancestry_job.state = DONE
    /\ current_ancestry = n_ancestry /\ LayerRequests = <<>>

\* C13: a pull into an image root that already holds every layer of the
\* ancestry issues no layer request, creates no temp, seals nothing and starts
\* no tar; while the json job runs nothing is delivered; once the json job is
\* done too exactly one result is delivered, and it is 0 with the local copy
\* made if one was asked for, unless making the local copy failed (the name
\* exists and force is off, or an I/O error).
C13_NothingToDo ==
    (AllLayersFound /\ ~destroyed) =>
        /\ DOMAIN temps = {} /\ SessionSealed = {} /\ children = {}
        /\ IsNull(layer_job) /\ temp_path = 0
        /\ json_job.state = "RUNNING" => (delivered = <<>> /\ copies = 0)
        /\ json_job.state = DONE =>
              /\ Len(delivered) = 1
              /\ delivered[1].r \in {0, -EEXIST, -EIO, -ENOMEM}
              /\ copies = (IF local # "" /\ delivered[1].r = 0 THEN 1 ELSE 0)
              /\ delivered[1].r < 0 => local # ""
              /\ delivered[1].r = -EEXIST => ~force_local
              /\ (local # "" /\ delivered[1].r = 0) => local \in machines

\* The step in which the ancestry is accepted with every layer in the store
\* touches neither the store nor the requests, and takes the cursor to the end
\* unless probing the store fails with an I/O error, which is delivered.
C13_SkipAll ==
    [][(ancestry = <<>> /\ ancestry' # <<>>
            /\ \A k \in 1..Len(ancestry') : ancestry'[k] \in DOMAIN store)
          => /\ store' = store /\ temps' = temps /\ requests' = requests
             /\ \/ AllLayersFound'
                \/ /\ current_ancestry' < n_ancestry'
                   /\ delivered' = Append(delivered, [via |-> IF on_finished
                                                             THEN "on_finished"
                                                             ELSE "sd_event_exit",
                                                      r |-> -EIO])]_vars

SuccessDelivered == delivered # <<>> /\ \A k \in 1..Len(delivered) : delivered[k].r = 0
NeverDecreases(q) == \A a, b \in 1..Len(q) : a < b => q[a] <= q[b]

\* C14, as stated: when a pull has completed successfully, the percentages it
\* reported never decreased, whatever the interleaving of the progress and
\* completion callbacks was, and the last one is at least 95.
C14_ProgressMonotonic ==
    SuccessDelivered =>
        /\ NeverDecreases(reported)
        /\ reported # <<>> /\ reported[Len(reported)] >= 95

\* Everything but the return value of the last pull call.
AllButPullRet ==
    <<images_job, tags_job, ancestry_job, json_job, layer_job, name, tag, id,
      response_token, response_registries, ancestry, n_ancestry,
      current_ancestry, on_finished, local, force_local, temp_path,
      final_path, tar_pid, store, temps, children, layer_jobs, machines,
      requests, ancestry_mismatch, reported, parser, delivered, steps, copies,
      aborted, destroyed>>
IsImagesRequest(q) == q.kind = "images_job"

\* A pull call that returns InvalidArgument or Busy changes nothing.
C15_RejectedStep ==
    [][(pull_ret' # pull_ret /\ pull_ret' \in {-EINVAL, -EBUSY})
          => UNCHANGED AllButPullRet]_vars

\* name, tag, local and force change, and an images request is issued, only
\* in a call made while no pull is in progress, with valid arguments, that
\* returns neither InvalidArgument nor Busy.
C15_ChangeOnlyWhenAccepted ==
    [][(<<name, tag, local, force_local>>' # <<name, tag, local, force_local>>
            \/ SelectSeq(requests', IsImagesRequest) # SelectSeq(requests, IsImagesRequest))
          => /\ IsNull(images_job)
             /\ pull_ret' \notin {-EINVAL, -EBUSY}
             /\ name' \in {"", "repo"} /\ tag' \in {"", "latest"}
             /\ local' \in {"", "m1"}]_vars

\* While a pull is in progress every call returns InvalidArgument or Busy.
C15_BusyWhileInProgress ==
    [][(~IsNull(images_job) /\ ~destroyed' /\ pull_ret' # pull_ret)
          => pull_ret' \in {-EINVAL, -EBUSY}]_vars

\* C15: a rejected pull call has no effect: a call with an invalid name, tag
\* or local returns InvalidArgument, a call during a pull in progress returns
\* Busy, and neither issues a request nor changes the session's name, tag,
\* local and force (nor anything else).
C15_RejectedPullNoEffect ==
    C15_RejectedStep /\ C15_ChangeOnlyWhenAccepted /\ C15_BusyWhileInProgress

\* A call was rejected as Busy while the pull for "repo" was under way.
C15_Witness ==
    /\ pull_ret = -EBUSY /\ images_job.state = "RUNNING"
    /\ name = "repo" /\ tag = "latest" /\ Len(requests) = 1

Requested(kind) == \E k \in 1..Len(requests) : requests[k].kind = kind
TimesRequested(kind) == Cardinality({k \in 1..Len(requests) : requests[k].kind = kind})
PhaseRank(kind) ==
    CASE kind = "images_job" -> 1
      [] kind = "tags_job" -> 2
      [] kind = "ancestry_job" -> 3
      [] kind = "json_job" -> 4
      [] OTHER -> 5

\* The requests come in the order images, tags, ancestry, json, layers, and
\* each of the first four at most once.
C16_InOrder ==
    /\ \A a, b \in 1..Len(requests) :
          a < b => PhaseRank(requests[a].kind) <= PhaseRank(requests[b].kind)
    /\ requests # <<>> => requests[1].kind = "images_job"
    /\ \A kind \in {"images_job", "tags_job", "ancestry_job", "json_job"} :
          TimesRequested(kind) <= 1

\* Each request is guarded by the success of the phase before it.
C16_Guarded ==
    ~destroyed =>
        /\ Requested("tags_job") =>
              (images_job.state = DONE /\ response_registries # <<>>)
        /\ (Requested("ancestry_job") \/ Requested("json_job")) =>
              (tags_job.state = DONE /\ dkr_id_is_valid(id))
        /\ Requested("layer_job") =>
              /\ ancestry_job.state = DONE
              /\ ancestry # <<>> /\ ancestry[Len(ancestry)] = id

\* The local copy is made only after the cursor reached the end of the
\* ancestry that was parsed and validated.
C16_CopyAtEnd ==
    copies > 0 =>
        /\ ancestry # <<>> /\ ancestry[Len(ancestry)] = id
        /\ current_ancestry = Len(ancestry)

\* C16, as stated: the requests of a pull are issued in phase order, each of
\* images, tags, ancestry and json at most once, each guarded by the success
\* of its predecessor (tags: images done with a non-empty registry list;
\* ancestry and json: tags done with a valid id; layer: ancestry parsed and
\* validated), and the local copy is made only after the cursor reached the
\* end of the ancestry.
C16_PhaseOrder == C16_InOrder /\ C16_Guarded /\ C16_CopyAtEnd

\* C17: when the images job has finished successfully with an empty registry
\* list, a protocol error is what was delivered and no tags job or request
\* exists; and an endpoints header with an invalid hostname fails the images
\* transfer with a protocol error, which is delivered, and leaves the recorded
\* registry list as it was.
C17_EmptyRegistries ==
    (images_job.state = DONE /\ response_registries = <<>> /\ ~destroyed) =>
        /\ Len(delivered) = 1 /\ delivered[1].r = -EBADMSG
        /\ ~Requested("tags_job") /\ IsNull(tags_job)

C17_InvalidHostname ==
    [][(images_job.state = "RUNNING" /\ images_job'.error = -EBADMSG)
          => /\ response_registries' = response_registries
             /\ \A k \in 1..Len(response_registries') :
                   hostname_is_valid(response_registries'[k])
             /\ requests' = requests
             /\ Len(delivered') = 1 /\ delivered'[1].r = -EBADMSG]_vars

\* C17: both together: an empty registry list is a protocol error with no
\* tags request, and a header with an invalid hostname changes no list.
C17_RegistryList == []C17_EmptyRegistries /\ C17_InvalidHostname

\* The images job finished successfully although no hostname was recorded.
C17_Witness ==
    /\ images_job.state = DONE /\ response_registries = <<>> /\ delivered # <<>>

\* '[' (STRING (',' STRING)*)? ']' and nothing after it.
InGrammar(toks) ==
    /\ Len(toks) >= 2
    /\ toks[1] = T_OPEN /\ toks[Len(toks)] = T_CLOSE
    /\ \/ Len(toks) = 2
       \/ /\ Len(toks) % 2 = 1
          /\ \A k \in 2..(Len(toks) - 1) :
                IF k % 2 = 0 THEN toks[k].t = "JSON_STRING" ELSE toks[k] = T_COMMA
\* The strings of an array of the grammar, in the order of the input.
Items(toks) == [k \in 1..((Len(toks) - 1) \div 2) |-> toks[2 * k].str]
NoErrorToken(toks) == \A k \in 1..Len(toks) : toks[k] # T_ERR
AllDistinct(q) == \A a, b \in 1..Len(q) : a # b => q[a] # q[b]
\* What the checks on the entries ask of an array of the grammar.
PassesChecks(toks) ==
    LET q == Items(toks)
    IN  /\ q # <<>> /\ Len(q) <= LAYERS_MAX
        /\ \A k \in 1..Len(q) : q[k] >= 1
        /\ AllDistinct(q)

\* C18, as stated: when parse_ancestry has returned, it has accepted the
\* payload only if its tokens form '[' (STRING (',' STRING)*)? ']' followed by
\* the end of input, it has accepted every such payload that passes the id,
\* non-empty, uniqueness and size checks, and it has rejected every other
\* sequence of tokens with a protocol error.
C18_ExactlyTheGrammar ==
    parser.done =>
        /\ parser.r = 0 => InGrammar(parser.toks)
        /\ (InGrammar(parser.toks) /\ ~parser.nul /\ PassesChecks(parser.toks))
              => parser.r = 0
        /\ (~InGrammar(parser.toks) /\ NoErrorToken(parser.toks))
              => parser.r = -EBADMSG

\* C19: when parse_ancestry has returned from a well-formed array of valid
\* ids with n entries: for n above 2048 it failed with -EFBIG; for n up to 2048
\* it failed with -EBADMSG if the array is empty or holds an id twice, and
\* otherwise it returned 0 and the entries in reverse order.
C19_ReverseOrReject ==
    LET q == Items(parser.toks)
        n == Len(q)
    IN  (/\ parser.done /\ InGrammar(parser.toks) /\ ~parser.nul
         /\ \A k \in 1..n : dkr_id_is_valid(q[k]))
            => /\ n > LAYERS_MAX => parser.r = -EFBIG
               /\ (n <= LAYERS_MAX /\ (n = 0 \/ ~AllDistinct(q)))
                     => parser.r = -EBADMSG
               /\ (n >= 1 /\ n <= LAYERS_MAX /\ AllDistinct(q))
                     => /\ parser.r = 0
                        /\ Len(parser.l) = n
                        /\ \A k \in 1..n : parser.l[k] = q[n + 1 - k]

\* The array ["1", "2"] was accepted and returned as ("2", "1").
C19_Witness ==
    /\ parser.done /\ parser.r = 0
    /\ Items(parser.toks) = <<1, 2>> /\ parser.l = <<2, 1>>

IsCallback(d) == d.via = "on_finished"

\* C20, as stated: the caller's completion callback is invoked at most once
\* per pull, whatever the order in which the jobs finish or fail is.
C20_CallbackOnce == Len(SelectSeq(delivered, IsCallback)) <= 1

\* The result handed over by this step, when the step hands one over.
Delivers(r) ==
    /\ Len(delivered') = Len(delivered) + 1
    /\ delivered'[Len(delivered')].r = r

\* The ancestry was parsed, validated against the image id and stored.
AncestryAccepted == ancestry # <<>> /\ ancestry[Len(ancestry)] = id

\* C21, as stated: success (0) is delivered only in a state where the ancestry
\* was parsed and validated against the image id, the cursor equals the
\* ancestry length, every layer of the ancestry is in the store, and no error
\* was delivered earlier in the same pull.
C21_SuccessOnlyWhenComplete ==
    [][Delivers(0)
          => /\ AncestryAccepted'
             /\ current_ancestry' = Len(ancestry')
             /\ \A k \in 1..Len(ancestry') : ancestry'[k] \in DOMAIN store'
             /\ ~ErrorDelivered]_vars

\* The case C21 names: no success after the ancestry payload failed to parse
\* or validate, also when the json job finishes successfully afterwards.
C21_NoSuccessWithoutAncestry ==
    [][(Delivers(0) /\ ancestry_job.state = DONE /\ ancestry = <<>>)
          => FALSE]_vars

\* The completion of the job is still to come.
Pending(j) == j.state = "RUNNING"

\* What each assertion of the orchestrator needs, stated on the states in
\* which the callback that asserts it can still run.
ImagesAsserts ==
    Pending(images_job)
        => /\ IsNull(tags_job) /\ IsNull(ancestry_job)
           /\ IsNull(json_job) /\ IsNull(layer_job)
TagsAsserts ==
    Pending(tags_job) => IsNull(ancestry_job) /\ IsNull(json_job) /\ IsNull(layer_job)
\* The ancestry completion asserts !layer_job and calls dkr_import_pull_layer.
AncestryAsserts ==
    Pending(ancestry_job) => IsNull(layer_job) /\ temp_path = 0 /\ final_path = 0
OpenDiskAsserts ==
    (Pending(layer_job) /\ layer_job.disk_fd < 0)
        => final_path # 0 /\ temp_path = 0 /\ tar_pid <= 0
\* A layer job can finish successfully once on_open_disk gave it its sink.
LayerAsserts ==
    (Pending(layer_job) /\ layer_job.disk_fd >= 0) => temp_path # 0 /\ final_path # 0

\* C22: under the job contract no assertion of the orchestrator fails in any
\* reachable state: no assertion has failed, and in every state each callback
\* that can still run finds what it asserts (on images completion no other
\* job; on tags completion no ancestry, json or layer job; on ancestry
\* completion no layer job and nothing left of a layer; on_open_disk with
\* final_path set, temp_path unset and no tar child; a successful layer
\* completion with temp_path and final_path set).
C22_NoAssertionFails ==
    /\ aborted = "none"
    /\ ImagesAsserts /\ TagsAsserts /\ AncestryAsserts
    /\ OpenDiskAsserts /\ LayerAsserts

\* Two layers were pulled one after the other and the pull completed: every
\* asserting callback ran, on_open_disk and dkr_import_pull_layer more than once.
C22_Witness ==
    /\ aborted = "none" /\ Len(LayerRequests) = 2 /\ Cardinality(SessionSealed) = 2
    /\ current_ancestry = 2 /\ IsNull(layer_job)
    /\ delivered = <<[via |-> "on_finished", r |-> 0]>>

\* The calls offered whose arguments pass the three validity checks.
ValidArgs ==
    {a \in PullArgs \cup BusyArgs :
        /\ dkr_name_is_valid(a.name)
        /\ a.tag # "" => dkr_tag_is_valid(a.tag)
        /\ a.local # "" => machine_name_is_valid(a.local)}

\* Once the images job exists, a call with valid arguments returns Busy and
\* does nothing else, in whatever state the pull is.
C23_BusyForEveryCall ==
    (~IsNull(images_job) /\ ~destroyed)
        => LET w == World
                busy == [w EXCEPT !.pull_ret = -EBUSY]
            IN  \A a \in ValidArgs, o \in PullOracles :
                   dkr_import_pull(w, a.name, a.tag, a.local, a.force, o) = busy

\* The images job is given up only when the session is destroyed.
C23_ImagesJobStays ==
    [][(~IsNull(images_job) /\ ~destroyed') => ~IsNull(images_job')]_vars

\* A call made after a result was delivered is rejected.
C23_LateCall ==
    [][(pull_after' /\ (pull_ret' # pull_ret \/ pull_after' # pull_after))
          => pull_ret' \in {-EBUSY, -EINVAL}]_vars

\* C23: a session is single-use: once a pull call has created the images job,
\* every later pull call with valid arguments on the same session returns
\* Busy, also after the first pull has completed (successfully or with an
\* error) and its completion callback has fired.
C23_SingleUse ==
    []C23_BusyForEveryCall /\ C23_ImagesJobStays /\ C23_LateCall

\* The pull completed successfully, the callback fired, and a call made
\* after that was answered Busy.
C23_Witness ==
    /\ pull_after /\ pull_ret = -EBUSY /\ images_job.state = DONE
    /\ delivered = <<[via |-> "on_finished", r |-> 0]>>

\* The same after a pull that ended with an error.
C23_WitnessAfterError ==
    /\ pull_after /\ pull_ret = -EBUSY /\ ~IsNull(images_job)
    /\ Len(delivered) = 1 /\ delivered[1].via = "on_finished" /\ delivered[1].r < 0

\* dkr_import_pull() returned 0: the images request is on the wire.
Accepted == requests # <<>>
Outstanding ==
    \E j \in {images_job, tags_job, ancestry_job, json_job, layer_job} : Pending(j)
ResultDelivered == delivered # <<>>

\* No accepted pull is left with no job outstanding and no result delivered.
C24_NeverIdle == (Accepted /\ ~Outstanding) => ResultDelivered

\* C24: if every job that is started eventually reports on_finished and the
\* session is not destroyed, every accepted pull eventually invokes the
\* completion callback (or sd_event_exit): no interleaving of the ancestry,
\* json and layer completions, and no combination of already-present layers,
\* leaves the session waiting forever with no job outstanding.
C24_AcceptedPullCompletes ==
    []C24_NeverIdle /\ (Accepted ~> ResultDelivered)

\* A pull that found every layer in the store and whose json job finished
\* after the ancestry job has delivered its one result, with no job left.
C24_Witness ==
    /\ Accepted /\ ~Outstanding /\ n_ancestry = 2 /\ current_ancestry = 2
    /\ LayerRequests = <<>> /\ Len(delivered) = 1 /\ delivered[1].r = 0
====
